---- MODULE Spec2Model ----
(***************************************************************************)
(* A model of ompay.js: the OMPayClient (construction, createCheckout,     *)
(* checkStatus, verifySignature, verifySignatureOrThrow, accessors) and    *)
(* the OMPayError taxonomy with its classification of failed HTTP calls.   *)
(*                                                                         *)
(* JavaScript values are tagged records, so that typeof, truthiness, the   *)
(* ?? operator and String() are computed as the language computes them.    *)
(***************************************************************************)
EXTENDS Integers, Sequences, FiniteSets, TLC

VARIABLES
    client,    \* the OMPayClient instance: NoClient until a construction succeeds
    config,    \* the configuration the client was constructed from
    pc,        \* "idle" | "awaiting" (suspended on the HTTP promise) | "done"
    call,      \* the public operation being invoked and its argument(s)
    outcome,   \* what the invocation returned or threw
    network,   \* the outbound HTTP request in flight, NoRequest when none
    reply,     \* how the HTTP promise of this invocation settled
    sent,      \* outbound requests issued by this invocation
    ncalls     \* invocations made so far

vars == <<client, config, pc, call, outcome, network, reply, sent, ncalls>>

----------------------------------------------------------------------------
(* Bounds of the model *)

\* invocations of public operations in one run
MaxCalls == 3
\* request amounts range over -1 .. MaxAmount (and NaN, and non-numbers)
MaxAmount == 2
\* hex digits of the modelled digest (SHA-256 renders 64)
DigestHexLen == 8

----------------------------------------------------------------------------
(* JavaScript values *)

Undefined == [kind |-> "undefined", s |-> "", n |-> 0]
Null == [kind |-> "null", s |-> "", n |-> 0]
NaN == [kind |-> "NaN", s |-> "", n |-> 0]
Str(x) == [kind |-> "string", s |-> x, n |-> 0]
Num(x) == [kind |-> "number", s |-> "", n |-> x]
Bool(x) == [kind |-> "boolean", b |-> x]
\* an object literal / parsed JSON object: props maps the keys present to values
Obj(props) == [kind |-> "object", props |-> props]
NoProps == [k \in {} |-> Undefined]

TypeOf(v) ==
    CASE v.kind = "NaN" -> "number"
      [] v.kind = "null" -> "object"
      [] OTHER -> v.kind

\* ToBoolean: what `!v` and `v && ...` test
Truthy(v) ==
    CASE v.kind = "undefined" -> FALSE
      [] v.kind = "null" -> FALSE
      [] v.kind = "NaN" -> FALSE
      [] v.kind = "string" -> v.s # ""
      [] v.kind = "number" -> v.n # 0
      [] v.kind = "boolean" -> v.b
      [] OTHER -> TRUE

Nullish(v) == v.kind \in {"undefined", "null"}

\* a ?? b
Coalesce(a, b) == IF Nullish(a) THEN b ELSE a

\* obj[key] on a non-nullish value; a key that is not there reads undefined
Get(obj, key) ==
    IF obj.kind = "object" /\ key \in DOMAIN obj.props
    THEN obj.props[key]
    ELSE Undefined

Digit(d) == SubSeq("0123456789", d + 1, d + 1)

RECURSIVE NatToString(_)
NatToString(n) ==
    IF n < 10 THEN Digit(n) ELSE NatToString(n \div 10) \o Digit(n % 10)

\* String(v) on the primitives the model holds
StringOf(v) ==
    CASE v.kind = "string" -> v.s
      [] v.kind = "number" ->
            IF v.n < 0 THEN "-" \o NatToString(-v.n) ELSE NatToString(v.n)
      [] v.kind = "NaN" -> "NaN"
      [] v.kind = "undefined" -> "undefined"
      [] v.kind = "null" -> "null"
      [] v.kind = "boolean" -> IF v.b THEN "true" ELSE "false"
      [] OTHER -> "[object Object]"

\* what a call returned, or what it threw
Return(v) == [kind |-> "return", value |-> v]
Throw(e) == [kind |-> "throw", error |-> e]

----------------------------------------------------------------------------
(* errors.ts *)

\* new OMPayError(details): absent details become undefined
OMPayError(code, message, statusCode, response, originalError) ==
    [name |-> "OMPayError",
     code |-> code,
     message |-> message,
     statusCode |-> Coalesce(statusCode, Undefined),
     response |-> Coalesce(response, Undefined),
     originalError |-> Coalesce(originalError, Undefined)]

ValidationError(message) ==
    OMPayError("VALIDATION_ERROR", message, Undefined, Undefined, Undefined)

\* the classification with the no-response checks in the other order: a
\* timed-out call, whose request was sent, is taken for a connectivity failure
fromAxiosError_requestFirst(error) ==
    IF Truthy(error.response)
    THEN LET statusCode == Get(error.response, "status")
             responseData == Get(error.response, "data")
             bodyMessage == IF Nullish(responseData) THEN Undefined
                            ELSE Get(responseData, "message")
         IN  IF statusCode = Num(401) \/ statusCode = Num(403)
             THEN OMPayError("AUTHENTICATION_ERROR",
                     "Authentication failed. Please check your client ID and secret.",
                     statusCode, responseData, error)
             ELSE IF statusCode = Num(400) \/ statusCode = Num(422)
             THEN OMPayError("VALIDATION_ERROR",
                     StringOf(Coalesce(bodyMessage, Str("Validation error occurred"))),
                     statusCode, responseData, error)
             ELSE OMPayError("API_ERROR",
                     StringOf(Coalesce(bodyMessage,
                                       Str("API error: " \o StringOf(statusCode)))),
                     statusCode, responseData, error)
    ELSE IF Truthy(error.request)
    THEN OMPayError("NETWORK_ERROR",
                    "Network error. Please check your internet connection.",
                    Undefined, Undefined, error)
    ELSE IF error.code = Str("ECONNABORTED")
    THEN OMPayError("TIMEOUT_ERROR", "Request timed out",
                    Undefined, Undefined, error)
    ELSE OMPayError("UNKNOWN_ERROR",
                    IF error.message # "" THEN error.message
                    ELSE "An unknown error occurred",
                    Undefined, Undefined, error)

fromAxiosError(error) ==
    IF Truthy(error.response)
    THEN LET statusCode == Get(error.response, "status")
             responseData == Get(error.response, "data")
             \* responseData?.["message"]
             bodyMessage == IF Nullish(responseData) THEN Undefined
                            ELSE Get(responseData, "message")
         IN  IF statusCode = Num(401) \/ statusCode = Num(403)
             THEN OMPayError("AUTHENTICATION_ERROR",
                     "Authentication failed. Please check your client ID and secret.",
                     statusCode, responseData, error)
             ELSE IF statusCode = Num(400) \/ statusCode = Num(422)
             THEN OMPayError("VALIDATION_ERROR",
                     StringOf(Coalesce(bodyMessage, Str("Validation error occurred"))),
                     statusCode, responseData, error)
             ELSE OMPayError("API_ERROR",
                     StringOf(Coalesce(bodyMessage,
                                       Str("API error: " \o StringOf(statusCode)))),
                     statusCode, responseData, error)
    ELSE IF error.code = Str("ECONNABORTED")
    THEN OMPayError("TIMEOUT_ERROR", "Request timed out",
                    Undefined, Undefined, error)
    ELSE IF Truthy(error.request)
    THEN OMPayError("NETWORK_ERROR",
                    "Network error. Please check your internet connection.",
                    Undefined, Undefined, error)
    ELSE OMPayError("UNKNOWN_ERROR",
                    IF error.message # "" THEN error.message
                    ELSE "An unknown error occurred",
                    Undefined, Undefined, error)

signatureMismatch ==
    OMPayError("SIGNATURE_MISMATCH",
               "Payment signature verification failed. The signature does not match.",
               Undefined, Undefined, Undefined)

----------------------------------------------------------------------------
(* client.ts: constants and construction *)

API_URLS ==
    Obj([sandbox |-> Str("https://api.uat.gateway.ompay.com"),
         production |-> Str("https://api.gateway.ompay.com")])

DEFAULT_TIMEOUT == 30000

NoClient == [constructed |-> FALSE]

validateConfig(cfg) ==
    IF ~Truthy(cfg.clientId) \/ TypeOf(cfg.clientId) # "string"
    THEN Throw(ValidationError("clientId is required and must be a string"))
    ELSE IF ~Truthy(cfg.clientSecret) \/ TypeOf(cfg.clientSecret) # "string"
    THEN Throw(ValidationError("clientSecret is required and must be a string"))
    ELSE IF Truthy(cfg.environment)
            /\ cfg.environment \notin {Str("sandbox"), Str("production")}
    THEN Throw(ValidationError("environment must be either 'sandbox' or 'production'"))
    ELSE Return(Undefined)

\* axios.create({baseURL, timeout, headers, auth}): no request is made
axiosCreate(baseURL, timeout, username, password) ==
    [baseURL |-> baseURL,
     timeout |-> timeout,
     headers |-> Obj([contentType |-> Str("application/json")]),
     auth |-> [username |-> username, password |-> password]]

\* a constructor whose default environment is the live one
newClient_productionDefault(cfg) ==
    LET environment == Coalesce(cfg.environment, Str("production"))
    IN  [constructed |-> TRUE,
         clientId |-> cfg.clientId,
         clientSecret |-> cfg.clientSecret,
         environment |-> environment,
         httpClient |-> axiosCreate(Get(API_URLS, StringOf(environment)),
                                    Coalesce(cfg.timeout, Num(DEFAULT_TIMEOUT)),
                                    cfg.clientId, cfg.clientSecret)]

\* the fields of the instance the constructor builds once validateConfig passed
newClient(cfg) ==
    LET environment == Coalesce(cfg.environment, Str("sandbox"))
        baseURL == Get(API_URLS, StringOf(environment))
    IN  [constructed |-> TRUE,
         clientId |-> cfg.clientId,
         clientSecret |-> cfg.clientSecret,
         environment |-> environment,
         httpClient |-> axiosCreate(baseURL,
                                    Coalesce(cfg.timeout, Num(DEFAULT_TIMEOUT)),
                                    cfg.clientId, cfg.clientSecret)]

getClientId(c) == c.clientId

getEnvironment(c) == c.environment

getBaseUrl(c) == Get(API_URLS, StringOf(c.environment))

----------------------------------------------------------------------------
(* client.ts: the HTTP transport as the client sees it *)

NoRequest == [method |-> "none"]
NoReply == [kind |-> "none"]

\* what httpClient.post / httpClient.get hand to the transport
HttpRequest(c, method, url, data, params) ==
    [method |-> method,
     baseURL |-> c.httpClient.baseURL,
     url |-> url,
     auth |-> c.httpClient.auth,
     timeout |-> c.httpClient.timeout,
     data |-> data,
     params |-> params]

\* the promise fulfils with a response (axios: status 2xx) ...
Resolved(status, data) ==
    [kind |-> "resolve", response |-> Obj([status |-> Num(status), data |-> data])]
\* ... or rejects with an error
Rejected(error) == [kind |-> "reject", error |-> error]

\* an AxiosError: response, code and request are there or undefined
AxiosError(response, code, request, message) ==
    [kind |-> "error", name |-> "AxiosError", message |-> message,
     response |-> response, code |-> code, request |-> request]

\* the TypeError of reading a property of null or undefined
TypeError(message) ==
    [kind |-> "error", name |-> "TypeError", message |-> message,
     response |-> Undefined, code |-> Undefined, request |-> Undefined]

----------------------------------------------------------------------------
(* client.ts: createCheckout *)

\* `request.amount <= 0`, evaluated on a value whose typeof is "number"
LessOrEqualZero(v) == v.kind = "number" /\ v.n <= 0

validateCheckoutRequest(request) ==
    IF TypeOf(request.amount) # "number" \/ LessOrEqualZero(request.amount)
    THEN Throw(ValidationError("amount must be a positive number"))
    ELSE IF ~Truthy(request.currency) \/ TypeOf(request.currency) # "string"
    THEN Throw(ValidationError("currency is required and must be a string"))
    ELSE IF ~Truthy(request.customer)
    THEN Throw(ValidationError("customer information is required"))
    ELSE IF \/ ~Truthy(Get(request.customer, "phone"))
            \/ ~Truthy(Get(request.customer, "email"))
            \/ ~Truthy(Get(request.customer, "name"))
    THEN Throw(ValidationError("customer phone, email, and name are required"))
    ELSE Return(Undefined)

\* the flat JSON payload; orderReference and metadata only when given
createCheckoutPayload(request) ==
    [amount |-> request.amount,
     currency |-> request.currency,
     uiMode |-> Coalesce(request.uiMode, Str("checkout")),
     redirectType |-> Coalesce(request.redirectType, Str("redirect")),
     phone |-> Get(request.customer, "phone"),
     email |-> Get(request.customer, "email"),
     name |-> Get(request.customer, "name")]
    @@ (IF Truthy(request.orderReference)
        THEN [orderReference |-> request.orderReference] ELSE NoProps)
    @@ (IF Truthy(request.metadata)
        THEN [metadata |-> request.metadata] ELSE NoProps)

\* the object literal of the return statement
createCheckoutResponse(data) ==
    Obj([orderId |-> Str(StringOf(Coalesce(Get(data, "orderId"), Str("")))),
         checkoutUrl |-> Get(data, "checkoutUrl"),
         status |-> Str(StringOf(Coalesce(Get(data, "status"), Str("")))),
         data |-> data])

\* the try/catch around the awaited post: whatever is thrown inside the try,
\* the rejection or a failure of the mapping, goes through fromAxiosError
createCheckoutSettled(settled) ==
    IF settled.kind = "resolve"
    THEN LET data == Get(settled.response, "data")
         IN  IF Nullish(data)
             THEN Throw(fromAxiosError(TypeError(
                      "Cannot read properties of " \o StringOf(data)
                          \o " (reading 'orderId')")))
             ELSE Return(createCheckoutResponse(data))
    ELSE Throw(fromAxiosError(settled.error))

----------------------------------------------------------------------------
(* client.ts: checkStatus *)

\* a guard that tests the type alone
checkStatusValidate_typeOnly(orderId) ==
    IF TypeOf(orderId) # "string"
    THEN Throw(ValidationError("orderId is required and must be a string"))
    ELSE Return(Undefined)

\* the guard at the head of checkStatus
checkStatusValidate(orderId) ==
    IF ~Truthy(orderId) \/ TypeOf(orderId) # "string"
    THEN Throw(ValidationError("orderId is required and must be a string"))
    ELSE Return(Undefined)

checkStatusResponse(data, orderId) ==
    Obj([orderId |-> Str(StringOf(Coalesce(Get(data, "orderId"), orderId))),
         status |-> Get(data, "status"),
         paymentId |-> Get(data, "paymentId"),
         amount |-> Get(data, "amount"),
         currency |-> Get(data, "currency"),
         paymentDetails |-> Get(data, "paymentDetails"),
         createdAt |-> Get(data, "createdAt"),
         updatedAt |-> Get(data, "updatedAt"),
         data |-> data])

checkStatusSettled(settled, orderId) ==
    IF settled.kind = "resolve"
    THEN LET data == Get(settled.response, "data")
         IN  IF Nullish(data)
             THEN Throw(fromAxiosError(TypeError(
                      "Cannot read properties of " \o StringOf(data)
                          \o " (reading 'orderId')")))
             ELSE Return(checkStatusResponse(data, orderId))
    ELSE Throw(fromAxiosError(settled.error))

----------------------------------------------------------------------------
(* client.ts: signature verification *)

\* createHmac("sha256", key).update(message).digest("hex") is modelled as an
\* ideal keyed hash: a function of the characters of key and message that is
\* collision-free on the strings of the model, rendered in lowercase hex of
\* DigestHexLen digits.
HashAlphabet == "/opqs12"

CharCode(c) ==
    CHOOSE i \in 1..Len(HashAlphabet) : SubSeq(HashAlphabet, i, i) = c

RECURSIVE Absorb(_, _)
Absorb(h, str) ==
    IF str = "" THEN h
    ELSE Absorb(h * (Len(HashAlphabet) + 1) + CharCode(SubSeq(str, 1, 1)),
                SubSeq(str, 2, Len(str)))

HexDigit(d) == SubSeq("0123456789abcdef", d + 1, d + 1)

RECURSIVE Hex(_, _)
Hex(n, width) ==
    IF width = 0 THEN "" ELSE Hex(n \div 16, width - 1) \o HexDigit(n % 16)

\* a digest taken without update(message): the key alone decides it
HmacSha256Hex_noUpdate(key, message) ==
    Hex(Absorb(0, key) * (Len(HashAlphabet) + 1), DigestHexLen)

HmacSha256Hex(key, message) ==
    Hex(Absorb(Absorb(0, key) * (Len(HashAlphabet) + 1), message), DigestHexLen)

\* a verifySignature that compares without validating the signature
verifySignature_noSignatureCheck(c, payload, signature) ==
    IF ~Truthy(Get(payload, "orderId")) \/ ~Truthy(Get(payload, "paymentId"))
    THEN Throw(ValidationError(
             "orderId and paymentId are required for signature verification"))
    ELSE Return(Bool(Str(HmacSha256Hex(c.clientSecret.s,
                         StringOf(Get(payload, "orderId")) \o "/"
                             \o StringOf(Get(payload, "paymentId"))))
                     = signature))

\* a verifySignature that signs paymentId/orderId
verifySignature_swapped(c, payload, signature) ==
    IF ~Truthy(Get(payload, "orderId")) \/ ~Truthy(Get(payload, "paymentId"))
    THEN Throw(ValidationError(
             "orderId and paymentId are required for signature verification"))
    ELSE IF ~Truthy(signature) \/ TypeOf(signature) # "string"
    THEN Throw(ValidationError("signature is required and must be a string"))
    ELSE Return(Bool(Str(HmacSha256Hex(c.clientSecret.s,
                         StringOf(Get(payload, "paymentId")) \o "/"
                             \o StringOf(Get(payload, "orderId"))))
                     = signature))

verifySignature(c, payload, signature) ==
    IF ~Truthy(Get(payload, "orderId")) \/ ~Truthy(Get(payload, "paymentId"))
    THEN Throw(ValidationError(
             "orderId and paymentId are required for signature verification"))
    ELSE IF ~Truthy(signature) \/ TypeOf(signature) # "string"
    THEN Throw(ValidationError("signature is required and must be a string"))
    ELSE LET dataToSign == StringOf(Get(payload, "orderId")) \o "/"
                               \o StringOf(Get(payload, "paymentId"))
             expectedSignature == HmacSha256Hex(c.clientSecret.s, dataToSign)
         IN  Return(Bool(Str(expectedSignature) = signature))

\* a mismatch that goes unreported
verifySignatureOrThrow_silent(c, payload, signature) ==
    LET verified == verifySignature(c, payload, signature)
    IN  IF verified.kind = "throw" THEN verified ELSE Return(Undefined)

\* an exception of verifySignature propagates; false becomes SIGNATURE_MISMATCH
verifySignatureOrThrow(c, payload, signature) ==
    LET verified == verifySignature(c, payload, signature)
    IN  IF verified.kind = "throw" THEN verified
        ELSE IF ~Truthy(verified.value) THEN Throw(signatureMismatch)
        ELSE Return(Undefined)

----------------------------------------------------------------------------
(* The inputs the caller and the gateway choose from *)

Configs ==
    [clientId : {Undefined, Str(""), Num(7), Str("c1")},
     clientSecret : {Undefined, Str(""), Num(7), Str("s1"), Str("s2")},
     environment : {Undefined, Str("sandbox"), Str("production"), Str(""),
                    Str("staging")},
     timeout : {Undefined, Num(5000)}]

NoConfig ==
    [clientId |-> Undefined, clientSecret |-> Undefined,
     environment |-> Undefined, timeout |-> Undefined]

FullCustomer ==
    Obj([phone |-> Str("+96891234567"), email |-> Str("a@b.com"),
         name |-> Str("A")])

Customers ==
    {Undefined,
     FullCustomer,
     Obj([phone |-> Str(""), email |-> Str("a@b.com"), name |-> Str("A")]),
     Obj([phone |-> Str("+96891234567"), name |-> Str("A")]),
     Obj([phone |-> Str("+96891234567"), email |-> Str("a@b.com"),
          name |-> Str("")]),
     Obj(NoProps)}

Amounts == {Num(n) : n \in -1..MaxAmount} \cup {NaN, Undefined, Str("5")}

Currencies == {Str("OMR"), Str(""), Undefined, Num(1)}

CheckoutRequests ==
    {[amount |-> a, currency |-> c, customer |-> k, uiMode |-> Undefined,
      redirectType |-> Undefined, orderReference |-> Undefined,
      metadata |-> Undefined] :
        a \in Amounts, c \in Currencies, k \in Customers}
    \cup
    {[amount |-> Num(1), currency |-> Str("OMR"), customer |-> FullCustomer,
      uiMode |-> Str("checkout"), redirectType |-> Str("post"),
      orderReference |-> Str("ORDER-123"),
      metadata |-> Obj([customField |-> Str("value")])]}

StatusOrderIds == {Undefined, Str(""), Num(5), Str("o"), Str("o/p")}

\* JSON bodies the gateway may answer with: objects, the empty body, null
Bodies ==
    {Obj([orderId |-> Str("o1"), status |-> Str("pending")]),
     Obj([orderId |-> Str("o1"), checkoutUrl |-> Str("https://pay.example/o1"),
          status |-> Str("pending")]),
     Obj([orderId |-> Num(42), status |-> Str("success"),
          paymentId |-> Str("q")]),
     Obj([status |-> Str("failed")]),
     Obj([orderId |-> Null, status |-> Null, message |-> Str("bad request")]),
     Obj([orderId |-> Str("o1"), status |-> Str("refunded"),
          message |-> Num(17)]),
     Obj(NoProps),
     Str(""),
     Null}

SuccessStatuses == {200, 201}
ErrorStatuses == {400, 401, 403, 404, 422, 500}

AxiosErrors ==
    {AxiosError(Obj([status |-> Num(st), data |-> body]), code, Obj(NoProps),
                "Request failed with status code " \o NatToString(st)) :
        st \in ErrorStatuses, body \in Bodies,
        code \in {Str("ERR_BAD_REQUEST"), Str("ECONNABORTED")}}
    \cup
    {AxiosError(Undefined, code, request, message) :
        code \in {Undefined, Str("ECONNABORTED"), Str("ERR_NETWORK")},
        request \in {Undefined, Obj(NoProps)},
        message \in {"", "timeout of 30000ms exceeded"}}

Settlements ==
    {Resolved(st, body) : st \in SuccessStatuses, body \in Bodies}
    \cup {Rejected(e) : e \in AxiosErrors}

SignatureOrderIds == {Undefined, Str(""), Str("o"), Str("o/p")}
SignaturePaymentIds == {Str(""), Str("q"), Str("p/q")}

SignaturePayloads ==
    {Obj([orderId |-> o, paymentId |-> p]) :
        o \in SignatureOrderIds, p \in SignaturePaymentIds}

\* str with the character at position i replaced by another hex digit
MutateAt(str, i) ==
    SubSeq(str, 1, i - 1)
        \o (IF SubSeq(str, i, i) = "0" THEN "1" ELSE "0")
        \o SubSeq(str, i + 1, Len(str))

UpperChar(c) ==
    CASE c = "a" -> "A" [] c = "b" -> "B" [] c = "c" -> "C"
      [] c = "d" -> "D" [] c = "e" -> "E" [] c = "f" -> "F" [] OTHER -> c

RECURSIVE Upper(_)
Upper(str) ==
    IF str = "" THEN ""
    ELSE UpperChar(SubSeq(str, 1, 1)) \o Upper(SubSeq(str, 2, Len(str)))

\* the digests of every message under every key of the model
Digests ==
    {HmacSha256Hex(k, o.s \o "/" \o p.s) :
        k \in {"s1", "s2"},
        o \in {x \in SignatureOrderIds : Truthy(x)},
        p \in {x \in SignaturePaymentIds : Truthy(x)}}

\* what a webhook may carry as signature: nothing, a non-string, junk, a
\* digest, a digest with one character changed, a digest in uppercase
Signatures ==
    {Undefined, Str(""), Num(1), Str("invalid-signature")}
    \cup {Str(d) : d \in Digests}
    \cup {Str(MutateAt(d, i)) : d \in Digests, i \in 1..DigestHexLen}
    \cup {Str(Upper(d)) : d \in Digests}

----------------------------------------------------------------------------
(* The state machine *)

NoCall == [op |-> "none", args |-> <<>>]
NoOutcome == [kind |-> "none"]

Init ==
    /\ client = NoClient
    /\ config = NoConfig
    /\ pc = "idle"
    /\ call = NoCall
    /\ outcome = NoOutcome
    /\ network = NoRequest
    /\ reply = NoReply
    /\ sent = 0
    /\ ncalls = 0

\* a synchronous operation: it returns or throws within the step
Synchronous(op, args, result) ==
    /\ call' = [op |-> op, args |-> args]
    /\ outcome' = result
    /\ pc' = "done"
    /\ ncalls' = ncalls + 1
    /\ UNCHANGED <<network, reply, sent>>

\* new OMPayClient(config)
Construct ==
    /\ pc = "idle"
    /\ ~client.constructed
    /\ ncalls < MaxCalls
    /\ \E cfg \in Configs :
          LET validated == validateConfig(cfg)
          IN  /\ Synchronous("constructor", <<cfg>>, validated)
              /\ IF validated.kind = "throw"
                 THEN UNCHANGED <<client, config>>
                 ELSE client' = newClient(cfg) /\ config' = cfg

\* createCheckout up to its await: validation, payload, post
CreateCheckout ==
    /\ pc = "idle"
    /\ client.constructed
    /\ ncalls < MaxCalls
    /\ \E request \in CheckoutRequests :
          LET validated == validateCheckoutRequest(request)
          IN  /\ call' = [op |-> "createCheckout", args |-> <<request>>]
              /\ ncalls' = ncalls + 1
              /\ IF validated.kind = "throw"
                 THEN /\ outcome' = validated
                      /\ pc' = "done"
                      /\ UNCHANGED <<network, sent>>
                 ELSE /\ network' = HttpRequest(client, "POST",
                                         "/nac/api/v1/pg/orders/create-checkout",
                                         Obj(createCheckoutPayload(request)),
                                         Obj(NoProps))
                      /\ sent' = sent + 1
                      /\ pc' = "awaiting"
                      /\ UNCHANGED outcome
    /\ UNCHANGED <<client, config, reply>>

\* a createCheckout that posts again when the request timed out
CreateCheckoutSettle_retry ==
    /\ pc = "awaiting"
    /\ call.op = "createCheckout"
    /\ \E settled \in Settlements :
          IF /\ settled.kind = "reject"
             /\ settled.error.code = Str("ECONNABORTED")
             /\ sent < 2
          THEN /\ sent' = sent + 1
               /\ reply' = settled
               /\ UNCHANGED <<pc, outcome, network>>
          ELSE /\ reply' = settled
               /\ outcome' = createCheckoutSettled(settled)
               /\ network' = NoRequest
               /\ pc' = "done"
               /\ UNCHANGED sent
    /\ UNCHANGED <<client, config, call, ncalls>>

\* createCheckout from its await on: the promise settles, the response is
\* mapped or the failure classified
CreateCheckoutSettle ==
    /\ pc = "awaiting"
    /\ call.op = "createCheckout"
    /\ \E settled \in Settlements :
          /\ reply' = settled
          /\ outcome' = createCheckoutSettled(settled)
    /\ network' = NoRequest
    /\ pc' = "done"
    /\ UNCHANGED <<client, config, call, sent, ncalls>>

\* checkStatus up to its await
CheckStatus ==
    /\ pc = "idle"
    /\ client.constructed
    /\ ncalls < MaxCalls
    /\ \E orderId \in StatusOrderIds :
          LET validated == checkStatusValidate(orderId)
          IN  /\ call' = [op |-> "checkStatus", args |-> <<orderId>>]
              /\ ncalls' = ncalls + 1
              /\ IF validated.kind = "throw"
                 THEN /\ outcome' = validated
                      /\ pc' = "done"
                      /\ UNCHANGED <<network, sent>>
                 ELSE /\ network' = HttpRequest(client, "GET",
                                         "/nac/api/v1/pg/orders/check-status",
                                         Undefined,
                                         Obj([orderId |-> orderId]))
                      /\ sent' = sent + 1
                      /\ pc' = "awaiting"
                      /\ UNCHANGED outcome
    /\ UNCHANGED <<client, config, reply>>

\* checkStatus from its await on
CheckStatusSettle ==
    /\ pc = "awaiting"
    /\ call.op = "checkStatus"
    /\ \E settled \in Settlements :
          /\ reply' = settled
          /\ outcome' = checkStatusSettled(settled, call.args[1])
    /\ network' = NoRequest
    /\ pc' = "done"
    /\ UNCHANGED <<client, config, call, sent, ncalls>>

VerifySignature ==
    /\ pc = "idle"
    /\ client.constructed
    /\ ncalls < MaxCalls
    /\ \E payload \in SignaturePayloads, signature \in Signatures :
          Synchronous("verifySignature", <<payload, signature>>,
                      verifySignature(client, payload, signature))
    /\ UNCHANGED <<client, config>>

VerifySignatureOrThrow ==
    /\ pc = "idle"
    /\ client.constructed
    /\ ncalls < MaxCalls
    /\ \E payload \in SignaturePayloads, signature \in Signatures :
          Synchronous("verifySignatureOrThrow", <<payload, signature>>,
                      verifySignatureOrThrow(client, payload, signature))
    /\ UNCHANGED <<client, config>>

GetClientId ==
    /\ pc = "idle"
    /\ client.constructed
    /\ ncalls < MaxCalls
    /\ Synchronous("getClientId", <<>>, Return(getClientId(client)))
    /\ UNCHANGED <<client, config>>

GetEnvironment ==
    /\ pc = "idle"
    /\ client.constructed
    /\ ncalls < MaxCalls
    /\ Synchronous("getEnvironment", <<>>, Return(getEnvironment(client)))
    /\ UNCHANGED <<client, config>>

GetBaseUrl ==
    /\ pc = "idle"
    /\ client.constructed
    /\ ncalls < MaxCalls
    /\ Synchronous("getBaseUrl", <<>>, Return(getBaseUrl(client)))
    /\ UNCHANGED <<client, config>>

\* the caller takes the result (or catches the error); the records of the
\* call are discarded
Consume ==
    /\ pc = "done"
    /\ pc' = "idle"
    /\ call' = NoCall
    /\ outcome' = NoOutcome
    /\ network' = NoRequest
    /\ reply' = NoReply
    /\ sent' = 0
    /\ UNCHANGED <<client, config, ncalls>>

Next ==
    \/ Construct
    \/ CreateCheckout
    \/ CreateCheckoutSettle
    \/ CheckStatus
    \/ CheckStatusSettle
    \/ VerifySignature
    \/ VerifySignatureOrThrow
    \/ GetClientId
    \/ GetEnvironment
    \/ GetBaseUrl
    \/ Consume

Spec == Init /\ [][Next]_vars

----------------------------------------------------------------------------
(* Concurrent calls on one client.  The caller starts several operations     *)
(* without awaiting the earlier ones; each awaits its own promise and the    *)
(* promises settle in any order.  The invocation variables pc, call,         *)
(* outcome, network, reply and sent hold one entry per call here.            *)

\* calls the caller has running at once
ConcurrentCalls == 2

Slots == 1..ConcurrentCalls

ConcurrentConfigs ==
    {[clientId |-> Str("c1"), clientSecret |-> Str("s1"),
      environment |-> Undefined, timeout |-> Undefined],
     [clientId |-> Str("c1"), clientSecret |-> Str("s2"),
      environment |-> Str("production"), timeout |-> Num(5000)]}

ConcurrentRequests ==
    {[amount |-> a, currency |-> Str("OMR"), customer |-> FullCustomer,
      uiMode |-> Undefined, redirectType |-> Undefined,
      orderReference |-> Undefined, metadata |-> Undefined] :
        a \in {Num(0), Num(1)}}

ConcurrentOrderIds == {Str(""), Str("o")}

ConcurrentSettlements ==
    {Resolved(200, Obj([orderId |-> Str("o1"), status |-> Str("pending")])),
     Rejected(AxiosError(Obj([status |-> Num(401), data |-> Obj(NoProps)]),
                         Str("ERR_BAD_REQUEST"), Obj(NoProps),
                         "Request failed with status code 401")),
     Rejected(AxiosError(Undefined, Str("ECONNABORTED"), Obj(NoProps),
                         "timeout of 30000ms exceeded"))}

ConcurrentSignatures ==
    {Str(HmacSha256Hex("s1", "o/q")), Str("invalid-signature")}

\* history kept for the properties: whether another call was awaiting its
\* response while call i took a step
Overlaps(i) == \E j \in Slots \ {i} : pc[j] = "awaiting"

InitConcurrent ==
    /\ \E cfg \in ConcurrentConfigs :
          /\ config = cfg
          /\ client = newClient(cfg)
    /\ pc = [i \in Slots |-> "idle"]
    /\ call = [i \in Slots |-> NoCall]
    /\ outcome = [i \in Slots |-> NoOutcome]
    /\ network = [i \in Slots |-> NoRequest]
    /\ reply = [i \in Slots |-> NoReply]
    /\ sent = [i \in Slots |-> 0]
    /\ ncalls = 0

ConcurrentCreateCheckout(i) ==
    /\ pc[i] = "idle"
    /\ \E request \in ConcurrentRequests :
          LET validated == validateCheckoutRequest(request)
          IN  /\ call' = [call EXCEPT ![i] =
                             [op |-> "createCheckout", args |-> <<request>>,
                              overlapped |-> Overlaps(i)]]
              /\ IF validated.kind = "throw"
                 THEN /\ outcome' = [outcome EXCEPT ![i] = validated]
                      /\ pc' = [pc EXCEPT ![i] = "done"]
                      /\ UNCHANGED <<network, sent>>
                 ELSE /\ network' = [network EXCEPT ![i] =
                                        HttpRequest(client, "POST",
                                            "/nac/api/v1/pg/orders/create-checkout",
                                            Obj(createCheckoutPayload(request)),
                                            Obj(NoProps))]
                      /\ sent' = [sent EXCEPT ![i] = @ + 1]
                      /\ pc' = [pc EXCEPT ![i] = "awaiting"]
                      /\ UNCHANGED outcome
    /\ UNCHANGED <<client, config, reply, ncalls>>

\* a client that shares one pending promise among the createCheckout calls
\* in flight: the response of one settles them all
ConcurrentCreateCheckoutSettle_sharedPromise(i) ==
    /\ pc[i] = "awaiting"
    /\ call[i].op = "createCheckout"
    /\ \E settled \in ConcurrentSettlements :
          LET same == {j \in Slots : /\ pc[j] = "awaiting"
                                     /\ call[j].op = "createCheckout"}
          IN  /\ reply' = [j \in Slots |->
                             IF j \in same THEN settled ELSE reply[j]]
              /\ outcome' = [j \in Slots |->
                               IF j \in same THEN createCheckoutSettled(settled)
                               ELSE outcome[j]]
              /\ network' = [j \in Slots |->
                               IF j \in same THEN NoRequest ELSE network[j]]
              /\ pc' = [j \in Slots |->
                          IF j \in same THEN "done" ELSE pc[j]]
    /\ call' = [call EXCEPT ![i].overlapped = @ \/ Overlaps(i)]
    /\ UNCHANGED <<client, config, sent, ncalls>>

ConcurrentCreateCheckoutSettle(i) ==
    /\ pc[i] = "awaiting"
    /\ call[i].op = "createCheckout"
    /\ \E settled \in ConcurrentSettlements :
          /\ reply' = [reply EXCEPT ![i] = settled]
          /\ outcome' = [outcome EXCEPT ![i] = createCheckoutSettled(settled)]
    /\ network' = [network EXCEPT ![i] = NoRequest]
    /\ pc' = [pc EXCEPT ![i] = "done"]
    /\ call' = [call EXCEPT ![i].overlapped = @ \/ Overlaps(i)]
    /\ UNCHANGED <<client, config, sent, ncalls>>

ConcurrentCheckStatus(i) ==
    /\ pc[i] = "idle"
    /\ \E orderId \in ConcurrentOrderIds :
          LET validated == checkStatusValidate(orderId)
          IN  /\ call' = [call EXCEPT ![i] =
                             [op |-> "checkStatus", args |-> <<orderId>>,
                              overlapped |-> Overlaps(i)]]
              /\ IF validated.kind = "throw"
                 THEN /\ outcome' = [outcome EXCEPT ![i] = validated]
                      /\ pc' = [pc EXCEPT ![i] = "done"]
                      /\ UNCHANGED <<network, sent>>
                 ELSE /\ network' = [network EXCEPT ![i] =
                                        HttpRequest(client, "GET",
                                            "/nac/api/v1/pg/orders/check-status",
                                            Undefined,
                                            Obj([orderId |-> orderId]))]
                      /\ sent' = [sent EXCEPT ![i] = @ + 1]
                      /\ pc' = [pc EXCEPT ![i] = "awaiting"]
                      /\ UNCHANGED outcome
    /\ UNCHANGED <<client, config, reply, ncalls>>

ConcurrentCheckStatusSettle(i) ==
    /\ pc[i] = "awaiting"
    /\ call[i].op = "checkStatus"
    /\ \E settled \in ConcurrentSettlements :
          /\ reply' = [reply EXCEPT ![i] = settled]
          /\ outcome' = [outcome EXCEPT ![i] =
                            checkStatusSettled(settled, call[i].args[1])]
    /\ network' = [network EXCEPT ![i] = NoRequest]
    /\ pc' = [pc EXCEPT ![i] = "done"]
    /\ call' = [call EXCEPT ![i].overlapped = @ \/ Overlaps(i)]
    /\ UNCHANGED <<client, config, sent, ncalls>>

\* verifySignature runs to completion between the steps of the pending calls
ConcurrentVerifySignature(i) ==
    /\ pc[i] = "idle"
    /\ \E signature \in ConcurrentSignatures :
          LET payload == Obj([orderId |-> Str("o"), paymentId |-> Str("q")])
          IN  /\ call' = [call EXCEPT ![i] =
                             [op |-> "verifySignature",
                              args |-> <<payload, signature>>,
                              overlapped |-> Overlaps(i)]]
              /\ outcome' = [outcome EXCEPT ![i] =
                                verifySignature(client, payload, signature)]
    /\ pc' = [pc EXCEPT ![i] = "done"]
    /\ UNCHANGED <<client, config, network, reply, sent, ncalls>>

\* the caller takes the result of call i
ConcurrentConsume(i) ==
    /\ pc[i] = "done"
    /\ pc' = [pc EXCEPT ![i] = "idle"]
    /\ call' = [call EXCEPT ![i] = NoCall]
    /\ outcome' = [outcome EXCEPT ![i] = NoOutcome]
    /\ network' = [network EXCEPT ![i] = NoRequest]
    /\ reply' = [reply EXCEPT ![i] = NoReply]
    /\ sent' = [sent EXCEPT ![i] = 0]
    /\ UNCHANGED <<client, config, ncalls>>

NextConcurrent ==
    \/ \E i \in Slots : ConcurrentCreateCheckout(i)
    \/ \E i \in Slots : ConcurrentCreateCheckoutSettle(i)
    \/ \E i \in Slots : ConcurrentCheckStatus(i)
    \/ \E i \in Slots : ConcurrentCheckStatusSettle(i)
    \/ \E i \in Slots : ConcurrentVerifySignature(i)
    \/ \E i \in Slots : ConcurrentConsume(i)

SpecConcurrent == InitConcurrent /\ [][NextConcurrent]_vars

----------------------------------------------------------------------------
(* Vocabulary of the properties *)

Done(op) == pc = "done" /\ call.op = op

Threw(code) == outcome.kind = "throw" /\ outcome.error.code = code

\* a string with at least one character
NonEmptyString(v) == v.kind = "string" /\ v.s # ""

\* missing, or the empty string
MissingOrEmpty(v) == v = Undefined \/ v = Str("")

\* a checkout request within the data model's invariant: amount > 0, a
\* currency, the three customer fields
WellFormedCheckout(request) ==
    /\ request.amount.kind = "number" /\ request.amount.n > 0
    /\ NonEmptyString(request.currency)
    /\ NonEmptyString(Get(request.customer, "phone"))
    /\ NonEmptyString(Get(request.customer, "email"))
    /\ NonEmptyString(Get(request.customer, "name"))

----------------------------------------------------------------------------
(* C1 *)

\* C1: a rejected call is classified by the ordered decision tree: with a
\* response, 401/403 is AUTHENTICATION_ERROR, 400/422 is VALIDATION_ERROR, any
\* other status API_ERROR; without one, a timeout is TIMEOUT_ERROR, else a
\* request that was sent is NETWORK_ERROR, else UNKNOWN_ERROR. A timed-out
\* call, which also has a request and no response, is TIMEOUT_ERROR.
C1_ErrorClassification ==
    (pc = "done" /\ reply.kind = "reject") =>
        LET e == reply.error
            received == e.response # Undefined
            status == IF received THEN e.response.props.status.n ELSE 0
            timedOut == e.code = Str("ECONNABORTED")
            requested == e.request # Undefined
        IN  /\ outcome.kind = "throw"
            /\ outcome.error.name = "OMPayError"
            /\ (received /\ status \in {401, 403})
                   => outcome.error.code = "AUTHENTICATION_ERROR"
            /\ (received /\ status \in {400, 422})
                   => outcome.error.code = "VALIDATION_ERROR"
            /\ (received /\ status \notin {400, 401, 403, 422})
                   => outcome.error.code = "API_ERROR"
            /\ (~received /\ timedOut)
                   => outcome.error.code = "TIMEOUT_ERROR"
            /\ (~received /\ ~timedOut /\ requested)
                   => outcome.error.code = "NETWORK_ERROR"
            /\ (~received /\ ~timedOut /\ ~requested)
                   => outcome.error.code = "UNKNOWN_ERROR"

\* a timed-out request (sent, never answered) surfaced as TIMEOUT_ERROR
C1_Witness ==
    /\ pc = "done"
    /\ reply.kind = "reject"
    /\ reply.error.response = Undefined
    /\ reply.error.code = Str("ECONNABORTED")
    /\ reply.error.request # Undefined
    /\ Threw("TIMEOUT_ERROR")

----------------------------------------------------------------------------
(* C2 *)

\* C2: construction fails with VALIDATION_ERROR whenever clientId or
\* clientSecret is missing or empty or the environment is supplied with a
\* value other than "sandbox" or "production"; no constructed client has an
\* environment outside {sandbox, production}.
C2_ConstructionRejects ==
    /\ Done("constructor") =>
           LET cfg == call.args[1]
           IN  (\/ MissingOrEmpty(cfg.clientId)
                \/ MissingOrEmpty(cfg.clientSecret)
                \/ /\ cfg.environment # Undefined
                   /\ cfg.environment \notin {Str("sandbox"), Str("production")})
                   => Threw("VALIDATION_ERROR")
    /\ client.constructed
           => client.environment \in {Str("sandbox"), Str("production")}

----------------------------------------------------------------------------
(* C3 *)

\* a configuration within the data model's invariant
ValidConfig(cfg) ==
    /\ NonEmptyString(cfg.clientId)
    /\ NonEmptyString(cfg.clientSecret)
    /\ cfg.environment \in {Undefined, Str("sandbox"), Str("production")}

\* C3: construction from a valid configuration succeeds, and from then on,
\* whatever operations ran in between, getClientId returns the configured
\* clientId, getEnvironment the configured environment ("sandbox" when
\* omitted) and getBaseUrl the host paired with it; the accessors do not fail.
C3_Accessors ==
    /\ (Done("constructor") /\ ValidConfig(call.args[1]))
           => /\ outcome.kind = "return"
              /\ client.constructed
              /\ config = call.args[1]
    /\ (client.constructed /\ ValidConfig(config))
           => LET env == IF config.environment = Undefined THEN "sandbox"
                         ELSE config.environment.s
                  host == IF env = "sandbox"
                          THEN "https://api.uat.gateway.ompay.com"
                          ELSE "https://api.gateway.ompay.com"
              IN  /\ client.clientId = config.clientId
                  /\ client.environment = Str(env)
                  /\ client.httpClient.baseURL = Str(host)
                  /\ Done("getClientId") => outcome = Return(config.clientId)
                  /\ Done("getEnvironment") => outcome = Return(Str(env))
                  /\ Done("getBaseUrl") => outcome = Return(Str(host))

\* getBaseUrl on a client configured without an environment, after another
\* operation ran on it
C3_Witness ==
    /\ Done("getBaseUrl")
    /\ ValidConfig(config)
    /\ config.environment = Undefined
    /\ ncalls >= 3
    /\ outcome = Return(Str("https://api.uat.gateway.ompay.com"))

----------------------------------------------------------------------------
(* C4 *)

\* C4: createCheckout posts only when amount is a number > 0, currency is a
\* non-empty string and customer.phone, customer.email and customer.name are
\* all non-empty; every other request is rejected with VALIDATION_ERROR and
\* no request is made.
C4_PostOnlyWhenValid ==
    (call.op = "createCheckout" /\ pc \in {"awaiting", "done"}) =>
        LET wellFormed == WellFormedCheckout(call.args[1])
        IN  /\ (sent > 0 \/ network.method = "POST") => wellFormed
            /\ ~wellFormed => /\ pc = "done"
                              /\ Threw("VALIDATION_ERROR")
                              /\ sent = 0
                              /\ network = NoRequest

----------------------------------------------------------------------------
(* C5 *)

\* C5: checkStatus rejects every empty orderId with VALIDATION_ERROR without
\* a network call; its GET is issued only for a non-empty string.
C5_CheckStatusValidation ==
    (call.op = "checkStatus" /\ pc \in {"awaiting", "done"}) =>
        LET orderId == call.args[1]
        IN  /\ MissingOrEmpty(orderId) => /\ pc = "done"
                                          /\ Threw("VALIDATION_ERROR")
                                          /\ sent = 0
                                          /\ network = NoRequest
                                          /\ reply = NoReply
            /\ (sent > 0 \/ network.method = "GET") => NonEmptyString(orderId)
            /\ network.method = "GET"
                   => network.params = Obj([orderId |-> orderId])

\* checkStatus("") rejected before anything was sent
C5_Witness ==
    /\ Done("checkStatus")
    /\ call.args[1] = Str("")
    /\ Threw("VALIDATION_ERROR")
    /\ sent = 0

----------------------------------------------------------------------------
(* C6 *)

\* C6: a valid createCheckout whose post was answered 2xx returns the mapped
\* response {orderId: String(body.orderId) or "", checkoutUrl:
\* body.checkoutUrl, status: String(body.status) or "", data: body}; it throws
\* only when the call itself failed.
C6_MappedResponseOn2xx ==
    (/\ Done("createCheckout")
     /\ WellFormedCheckout(call.args[1])
     /\ reply.kind # "none") =>
        /\ reply.kind = "resolve" =>
               LET body == reply.response.props.data
                   orderId == Get(body, "orderId")
                   status == Get(body, "status")
               IN  /\ outcome.kind = "return"
                   /\ outcome.value =
                          Obj([orderId |-> IF Nullish(orderId) THEN Str("")
                                           ELSE Str(StringOf(orderId)),
                               checkoutUrl |-> Get(body, "checkoutUrl"),
                               status |-> IF Nullish(status) THEN Str("")
                                          ELSE Str(StringOf(status)),
                               data |-> body])
        /\ outcome.kind = "throw" => reply.kind = "reject"

----------------------------------------------------------------------------
(* C7 *)

\* C7: for non-empty orderId O, paymentId P and signature string G,
\* verifySignature returns true iff G is exactly the lowercase-hex HMAC of
\* O + "/" + P under the configured clientSecret; a digest with one character
\* changed does not verify.
C7_SignatureIff ==
    Done("verifySignature") =>
        LET O == Get(call.args[1], "orderId")
            P == Get(call.args[1], "paymentId")
            G == call.args[2]
        IN  (NonEmptyString(O) /\ NonEmptyString(P) /\ NonEmptyString(G)) =>
                LET digest == HmacSha256Hex(config.clientSecret.s,
                                            O.s \o "/" \o P.s)
                IN  /\ outcome = Return(Bool(G.s = digest))
                    /\ \A i \in 1..DigestHexLen :
                           G.s = MutateAt(digest, i)
                               => outcome = Return(Bool(FALSE))

\* the correctly computed digest verifies
C7_Witness ==
    /\ Done("verifySignature")
    /\ outcome = Return(Bool(TRUE))
    /\ call.args[2] =
           Str(HmacSha256Hex(config.clientSecret.s, "o/p" \o "/" \o "q"))

\* a digest with one character changed is refused
C7_MutationWitness ==
    /\ Done("verifySignature")
    /\ outcome = Return(Bool(FALSE))
    /\ \E i \in 1..DigestHexLen :
           call.args[2] =
               Str(MutateAt(HmacSha256Hex(config.clientSecret.s,
                       call.args[1].props.orderId.s \o "/"
                           \o call.args[1].props.paymentId.s), i))

----------------------------------------------------------------------------
(* C8 *)

\* C8: verifySignatureOrThrow returns normally exactly when verifySignature
\* returns true on the same arguments, and throws SIGNATURE_MISMATCH, with no
\* statusCode, response or cause, exactly when verifySignature returns false.
C8_OrThrowAgrees ==
    Done("verifySignatureOrThrow") =>
        LET verified == verifySignature(client, call.args[1], call.args[2])
            true == verified.kind = "return" /\ verified.value = Bool(TRUE)
            false == verified.kind = "return" /\ verified.value = Bool(FALSE)
        IN  /\ true <=> outcome.kind = "return"
            /\ false <=> Threw("SIGNATURE_MISMATCH")
            /\ Threw("SIGNATURE_MISMATCH")
                   => /\ outcome.error.statusCode = Undefined
                      /\ outcome.error.response = Undefined
                      /\ outcome.error.originalError = Undefined

\* a signature that is not the digest makes verifySignatureOrThrow throw
C8_Witness ==
    /\ Done("verifySignatureOrThrow")
    /\ Threw("SIGNATURE_MISMATCH")
    /\ call.args[2] \in {Str(d) : d \in Digests}

----------------------------------------------------------------------------
(* C9 *)

\* C9: with payload.orderId, payload.paymentId or the signature empty, both
\* verifySignature and verifySignatureOrThrow throw VALIDATION_ERROR: no
\* boolean is returned and no SIGNATURE_MISMATCH is reported.
C9_EmptyInputRejected ==
    (Done("verifySignature") \/ Done("verifySignatureOrThrow")) =>
        ((\/ MissingOrEmpty(Get(call.args[1], "orderId"))
          \/ MissingOrEmpty(Get(call.args[1], "paymentId"))
          \/ MissingOrEmpty(call.args[2]))
            => Threw("VALIDATION_ERROR"))

\* verifySignatureOrThrow with an empty signature and a complete payload
C9_Witness ==
    /\ Done("verifySignatureOrThrow")
    /\ NonEmptyString(Get(call.args[1], "orderId"))
    /\ NonEmptyString(Get(call.args[1], "paymentId"))
    /\ call.args[2] = Str("")
    /\ Threw("VALIDATION_ERROR")

----------------------------------------------------------------------------
(* C10 *)

NetworkOps == {"createCheckout", "checkStatus"}

\* whether the invocation's input passes the operation's validation
ValidationPassed ==
    IF call.op = "createCheckout"
    THEN validateCheckoutRequest(call.args[1]).kind = "return"
    ELSE checkStatusValidate(call.args[1]).kind = "return"

\* C10: an invocation makes at most one outbound request: createCheckout and
\* checkStatus exactly one when validation passes and none otherwise; a
\* failed request ends the invocation with one typed error and nothing is
\* sent again; the other operations send nothing.
C10_AtMostOneRequest ==
    /\ sent <= 1
    /\ (call.op \in NetworkOps) => (sent = 1 <=> ValidationPassed)
    /\ (call.op \notin NetworkOps) => (sent = 0 /\ network = NoRequest)
    /\ pc = "awaiting" => (sent = 1 /\ network # NoRequest /\ reply = NoReply)
    /\ pc = "done" => network = NoRequest
    /\ reply.kind = "reject"
           => /\ pc = "done"
              /\ outcome.kind = "throw"
              /\ outcome.error.name = "OMPayError"
              /\ sent = 1

\* a timed-out createCheckout ended with TIMEOUT_ERROR after its one request
C10_Witness ==
    /\ Done("createCheckout")
    /\ reply.kind = "reject"
    /\ reply.error.code = Str("ECONNABORTED")
    /\ Threw("TIMEOUT_ERROR")
    /\ sent = 1

----------------------------------------------------------------------------
(* C12 *)

\* the PaymentStatus union of types.ts
PaymentStatuses == {"success", "failed", "pending", "cancelled"}

\* C12: what checkStatus returns is an Order status response: its orderId is
\* the body's orderId stringified, or the input orderId when the body has
\* none, and its status is one of success, failed, pending, cancelled.
C12_OrderStatusResponse ==
    (Done("checkStatus") /\ outcome.kind = "return") =>
        LET body == reply.response.props.data
            bodyId == Get(body, "orderId")
        IN  /\ outcome.value.props.orderId =
                   (IF Nullish(bodyId) THEN call.args[1]
                    ELSE Str(StringOf(bodyId)))
            /\ outcome.value.props.status
                   \in {Str(s) : s \in PaymentStatuses}

----------------------------------------------------------------------------
(* C13 *)

\* the message of the first of the four checks of createCheckout that the
\* request fails, "" when it passes them all
FirstFailingCheck(request) ==
    IF ~(request.amount.kind = "number" /\ request.amount.n > 0)
    THEN "amount must be a positive number"
    ELSE IF ~NonEmptyString(request.currency)
    THEN "currency is required and must be a string"
    ELSE IF request.customer.kind # "object"
    THEN "customer information is required"
    ELSE IF ~(/\ NonEmptyString(Get(request.customer, "phone"))
              /\ NonEmptyString(Get(request.customer, "email"))
              /\ NonEmptyString(Get(request.customer, "name")))
    THEN "customer phone, email, and name are required"
    ELSE ""

\* C13: createCheckout reports the first failing check among (1) amount is
\* a number > 0, (2) currency is a non-empty string, (3) customer is present,
\* (4) customer phone, email and name are non-empty; a request that passes
\* them all is not rejected by validation.
C13_FirstFailingCheck ==
    (call.op = "createCheckout" /\ pc \in {"awaiting", "done"}) =>
        LET expected == FirstFailingCheck(call.args[1])
        IN  /\ expected # ""
                   => /\ pc = "done"
                      /\ outcome = Throw(ValidationError(expected))
            /\ expected = "" => (pc = "awaiting" \/ reply # NoReply)

----------------------------------------------------------------------------
(* C14 *)

\* the payloads with both ids non-empty
CompletePayloads ==
    {p \in SignaturePayloads :
        /\ NonEmptyString(Get(p, "orderId"))
        /\ NonEmptyString(Get(p, "paymentId"))}

\* orderId + "/" + paymentId
CanonicalMessage(payload) ==
    Get(payload, "orderId").s \o "/" \o Get(payload, "paymentId").s

\* C14 as stated: a signature that verifies for (O, P) verifies for no other
\* pair (O2, P2) of non-empty strings on the same client.
C14_BoundToOnePair ==
    (Done("verifySignature") /\ outcome = Return(Bool(TRUE))) =>
        \A other \in CompletePayloads :
            other # call.args[1]
                => verifySignature(client, other, call.args[2])
                       = Return(Bool(FALSE))

\* C14, amended: a signature that verifies for (O, P) verifies for no pair
\* (O2, P2) of non-empty strings whose message O2 + "/" + P2 is another string
\* than O + "/" + P; a pair with the same message verifies as well.
C14_BoundToOneMessage ==
    (Done("verifySignature") /\ outcome = Return(Bool(TRUE))) =>
        \A other \in CompletePayloads :
            verifySignature(client, other, call.args[2])
                = Return(Bool(CanonicalMessage(other)
                                  = CanonicalMessage(call.args[1])))

\* a signature accepted for ("o", "q"), while other pairs could be presented
C14_Witness ==
    /\ Done("verifySignature")
    /\ outcome = Return(Bool(TRUE))
    /\ call.args[1] = Obj([orderId |-> Str("o"), paymentId |-> Str("q")])
    /\ \E other \in CompletePayloads :
           CanonicalMessage(other) # CanonicalMessage(call.args[1])


\* the outcome of one call made alone on a client freshly built from the
\* same configuration, given its own input and its own gateway response
OutcomeAlone(cl, settled) ==
    LET alone == newClient(config)
    IN  CASE cl.op = "createCheckout" ->
                 LET validated == validateCheckoutRequest(cl.args[1])
                 IN  IF validated.kind = "throw" THEN validated
                     ELSE createCheckoutSettled(settled)
          [] cl.op = "checkStatus" ->
                 LET validated == checkStatusValidate(cl.args[1])
                 IN  IF validated.kind = "throw" THEN validated
                     ELSE checkStatusSettled(settled, cl.args[1])
          [] cl.op = "verifySignature" ->
                 verifySignature(alone, cl.args[1], cl.args[2])

\* the components of call i
Slot(i) == <<pc[i], call[i], outcome[i], network[i], reply[i], sent[i]>>

\* C11: calls of createCheckout, checkStatus and verifySignature that run
\* concurrently on one client are independent under every interleaving of
\* their steps: each finished call's outcome is the one the same call would
\* have alone, given its own input and its own gateway response; two calls
\* with the same input and the same response end the same way; no step
\* changes the client or its configuration, which every call reads; and a
\* step of one call changes nothing that belongs to another call.
C11_ConcurrentCallsIndependent ==
    /\ [](\A i \in Slots :
            pc[i] = "done" =>
                /\ outcome[i] = OutcomeAlone(call[i], reply[i])
                /\ \A j \in Slots :
                      (/\ pc[j] = "done"
                       /\ call[j].op = call[i].op
                       /\ call[j].args = call[i].args
                       /\ reply[j] = reply[i]) => outcome[j] = outcome[i])
    /\ [][/\ client' = client
          /\ config' = config
          /\ \A i, j \in Slots :
                (i # j /\ Slot(i)' # Slot(i)) => Slot(j)' = Slot(j)]_vars

\* two createCheckout calls with the same request ran while the other was
\* awaiting its response, and each ended on its own response: one returned
\* the mapped order, the other threw TIMEOUT_ERROR
C11_Witness ==
    /\ pc[1] = "done" /\ pc[2] = "done"
    /\ call[1].op = "createCheckout" /\ call[2].op = "createCheckout"
    /\ call[1].args = call[2].args
    /\ call[1].overlapped /\ call[2].overlapped
    /\ outcome[1].kind = "return"
    /\ outcome[2].kind = "throw" /\ outcome[2].error.code = "TIMEOUT_ERROR"
    /\ reply[1] # reply[2]

====
